---- MODULE Spec2Model ----
(***************************************************************************)
(* Model of paperview-rs (src/src/main.rs): the startup sequence of main,  *)
(* choose_visual (the ARGB32 visual selection with its fallback) and       *)
(* composite_manager_running (the _NET_WM_CM_S<n> selection probe),        *)
(* together with the display server they talk to.                          *)
(***************************************************************************)
EXTENDS Integers, Sequences, FiniteSets, TLC

\* ------------------------------------------------------------------ bounds

\* Longest picture-format list a QueryPictFormats reply carries.
MaxFormats == 2
\* Most visuals a QueryPictFormats reply carries, over all screens and depths.
MaxVisuals == 2
\* Most invocations of composite_manager_running by the repeated-probe caller.
MaxCalls == 3

\* ------------------------------------------------------- program constants

\* x11rb::NONE, the null resource identifier.
NONE == 0
\* let depth = 32;
depth == 32
DIRECT == "Direct"
INDEXED == "Indexed"
\* (d.red_mask, d.green_mask, d.blue_mask, d.alpha_mask) == (0xff, 0xff, 0xff, 0xff)
ArgbMasks == <<255, 255, 255, 255>>
\* (d.red_shift, d.green_shift, d.blue_shift, d.alpha_shift) == (16, 8, 0, 24)
ArgbShifts == <<16, 8, 0, 24>>

\* ------------------------------------------------------- the display server

\* conn.setup().roots: the screens of the server, each with its root depth
\* and root visual.  Screen 0 is a plain 24-bit screen, screen 1 a screen
\* whose root window already has depth 32.
roots == << [root_depth |-> 24, root_visual |-> 33],
            [root_depth |-> 32, root_visual |-> 34] >>
\* The screen numbers XCBConnection::connect can hand out (0-based).
ScreenNums == 0 .. (Len(roots) - 1)

\* The depths a render screen lists its visuals under, in reply order.
DepthValues == <<24, 32>>
\* The picture-format identifiers the server uses.
FormatIds == {41, 42}

Directformat(masks, shifts) ==
    [red_shift |-> shifts[1], red_mask |-> masks[1],
     green_shift |-> shifts[2], green_mask |-> masks[2],
     blue_shift |-> shifts[3], blue_mask |-> masks[3],
     alpha_shift |-> shifts[4], alpha_mask |-> masks[4]]

Pictforminfo(id, type_, d, masks, shifts) ==
    [id |-> id, type_ |-> type_, depth |-> d, direct |-> Directformat(masks, shifts)]

\* The picture formats a server may advertise: ARGB32 under either id, and
\* one format failing each single predicate of choose_visual (type, depth,
\* alpha mask, shifts).
PictFormats ==
    { Pictforminfo(id, DIRECT, 32, ArgbMasks, ArgbShifts) : id \in FormatIds }
    \cup { Pictforminfo(41, INDEXED, 32, ArgbMasks, ArgbShifts),
           Pictforminfo(41, DIRECT, 24, ArgbMasks, ArgbShifts),
           Pictforminfo(41, DIRECT, 32, <<255, 255, 255, 0>>, ArgbShifts),
           Pictforminfo(41, DIRECT, 32, ArgbMasks, <<0, 8, 16, 24>>) }

SeqsUpTo(S, n) == UNION { [1 .. k -> S] : k \in 0 .. n }

\* Format lists of a reply.
FormatLists == SeqsUpTo(PictFormats, MaxFormats)

RECURSIVE SumLen(_)
SumLen(ss) == IF ss = <<>> THEN 0 ELSE Len(Head(ss)) + SumLen(Tail(ss))

RECURSIVE Concat(_)
Concat(ss) == IF ss = <<>> THEN <<>> ELSE Head(ss) \o Concat(Tail(ss))

\* The shape of a reply's screen list: per screen, per depth, the format each
\* visual references.  A reply may carry fewer screens than the setup has
\* roots, a screen may list no depth and a depth no visual.
VisualRefs == SeqsUpTo(FormatIds, MaxVisuals)
DepthShapes == SeqsUpTo(VisualRefs, Len(DepthValues))
ScreenShapes ==
    { sh \in SeqsUpTo(DepthShapes, Len(roots)) :
        SumLen([s \in 1 .. Len(sh) |-> Concat(sh[s])]) <= MaxVisuals }

\* Visual identifiers are unique on a server: the i-th visual of the d-th
\* depth of the s-th screen.
VisualIdAt(s, d, i) == 100 * s + 10 * d + i

Pictscreens(sh) ==
    [s \in 1 .. Len(sh) |->
        [depths |->
            [d \in 1 .. Len(sh[s]) |->
                [depth |-> DepthValues[d],
                 visuals |->
                    [i \in 1 .. Len(sh[s][d]) |->
                        [visual |-> VisualIdAt(s, d, i),
                         format |-> sh[s][d][i]]]]]]]

\* The replies to QueryPictFormats.
QueryPictFormatsReplies ==
    { [formats |-> fl, screens |-> Pictscreens(sh)] :
        fl \in FormatLists, sh \in ScreenShapes }

\* The windows a compositing manager may own the selection with.
CompositorWindows == {77}

\* format!("_NET_WM_CM_S{}", screen_num)
SelectionName(n) == <<"_NET_WM_CM_S", n>>
\* The server's atom table: InternAtom with only_if_exists = false.
AtomOf(name) == 400 + name[2]
CmAtoms == { AtomOf(SelectionName(n)) : n \in ScreenNums }

\* ------------------------------------------------------------------- state

VARIABLES
    pc,               \* position of the program
    screen_num,       \* the screen number connect returned
    has_render,       \* choose_visual: has_render
    formats,          \* choose_visual: the QueryPictFormats reply (formats)
    cv_result,        \* what choose_visual returned
    visual,           \* main: (depth, visualid)
    atom,             \* composite_manager_running: atom
    cm_result,        \* what composite_manager_running returned
    main_result,      \* what main returned
    selection_owner,  \* server: owner of each _NET_WM_CM_S<n> selection
    requests,         \* history: the requests the running function issued,
                      \*          each with the outcome the connection gave
    invoked,          \* history: the functions main has called
    answers           \* history: the booleans the repeated probe got

vars == <<pc, screen_num, has_render, formats, cv_result, visual, atom,
          cm_result, main_result, selection_owner, requests,
          invoked, answers>>

NoValue == [kind |-> "None"]
Some(v) == [kind |-> "Some", value |-> v]
Ok(v) == [kind |-> "Ok", value |-> v]
Err(e) == [kind |-> "Err", error |-> e]
\* An index out of bounds: the thread panics and the process aborts.
Panic == [kind |-> "Panic"]

\* The ways a request that has a reply can fail: sending it (ConnectionError)
\* or receiving the reply (ConnectionError, or an X11 error reply).
Failures == { Err("ConnectionError"), Err("X11Error") }

\* An entry of the request history: the request and what came back, the
\* error of a failure or the kind of a reply.
Issued(name, r) ==
    [name |-> name,
     reply |-> CASE r.kind = "Err" -> r.error
                 [] r.value \in {NoValue} \cup {Some("RENDER")} -> r.value.kind
                 [] OTHER -> "Ok"]

\* The replies of the connection to each request.
ConnectReplies == { Ok(n) : n \in ScreenNums } \cup { Err("ConnectError") }
AtomCollectionReplies == { Ok("atoms") } \cup Failures
ExtensionInformationReplies ==
    { Ok(Some("RENDER")), Ok(NoValue), Err("ConnectionError") }
RenderQueryPictFormatsReplies ==
    { Ok(r) : r \in QueryPictFormatsReplies } \cup Failures
InternAtomReplies(name) == { Ok([atom |-> AtomOf(name)]) } \cup Failures
GetSelectionOwnerReplies(a) == { Ok([owner |-> selection_owner[a]]) } \cup Failures

\* ----------------------------------------------------------- choose_visual

\* let screen = &conn.setup().roots[screen_num];
screen_of(n) == roots[n + 1]

\* .filter(|info| (info.type_, info.depth) == (PictType::DIRECT, depth))
IsDirectDepth(info) == <<info.type_, info.depth>> = <<DIRECT, depth>>

\* .filter(|info| (d.red_mask, d.green_mask, d.blue_mask, d.alpha_mask) == (0xff, ...))
HasArgbMasks(info) ==
    LET d == info.direct
    IN  <<d.red_mask, d.green_mask, d.blue_mask, d.alpha_mask>> = ArgbMasks

\* .find(|info| (d.red_shift, d.green_shift, d.blue_shift, d.alpha_shift) == (16, 8, 0, 24))
HasArgbShifts(info) ==
    LET d == info.direct
    IN  <<d.red_shift, d.green_shift, d.blue_shift, d.alpha_shift>> = ArgbShifts

\* The items an iterator yields.
Items(s) == { s[i] : i \in 1 .. Len(s) }

\* Iterator::find: the first element of s among those matching, if any.
Find(s, matching) ==
    IF \E i \in 1 .. Len(s) : s[i] \in matching
    THEN Some(s[CHOOSE i \in 1 .. Len(s) :
                    s[i] \in matching /\ \A j \in 1 .. (i - 1) : s[j] \notin matching])
    ELSE NoValue

\* find_format without the filter on the masks.
find_format_no_masks(fs) ==
    LET direct == SelectSeq(fs, IsDirectDepth)
    IN  Find(direct, { info \in Items(direct) : HasArgbShifts(info) })

\* find_format with the shifts never compared: the first format with the masks.
find_format_no_shifts(fs) ==
    LET masked == SelectSeq(SelectSeq(fs, IsDirectDepth), HasArgbMasks)
    IN  Find(masked, Items(masked))

\* formats.formats.iter().filter(..).filter(..).find(..)
find_format(fs) ==
    LET masked == SelectSeq(SelectSeq(fs, IsDirectDepth), HasArgbMasks)
    IN  Find(masked, { info \in Items(masked) : HasArgbShifts(info) })

\* .depths.iter().flat_map(|d| &d.visuals)
flat_visuals(pictscreen) ==
    Concat([d \in 1 .. Len(pictscreen.depths) |-> pictscreen.depths[d].visuals])

\* formats.screens[screen_num] ... .find(|v| v.format == format.id): the
\* index panics when the reply has no entry for the screen.
find_visual(screens, n, format) ==
    IF n >= Len(screens)
    THEN Panic
    ELSE LET visuals == flat_visuals(screens[n + 1])
         IN  Find(visuals, { v \in Items(visuals) : v.format = format.id })

\* Ok((screen.root_depth, screen.root_visual))
fallback(screen) == Ok(<<screen.root_depth, screen.root_visual>>)

\* select_visual with the pair it returns for a match the wrong way round.
select_visual_swapped(screen, hr, reply, n) ==
    IF hr
    THEN LET format == find_format(reply.formats)
         IN  IF format.kind = "Some"
             THEN LET v == find_visual(reply.screens, n, format.value)
                  IN  CASE v.kind = "Panic" -> Panic
                        [] v.kind = "Some" ->
                              Ok(<<v.value.visual, format.value.depth>>)
                        [] OTHER -> fallback(screen)
             ELSE fallback(screen)
    ELSE fallback(screen)

\* choose_visual from `if has_render` on, with the reply in hand.
select_visual(screen, hr, reply, n) ==
    IF hr
    THEN LET format == find_format(reply.formats)
         IN  IF format.kind = "Some"
             THEN LET v == find_visual(reply.screens, n, format.value)
                  IN  CASE v.kind = "Panic" -> Panic
                        [] v.kind = "Some" ->
                              Ok(<<format.value.depth, v.value.visual>>)
                        [] OTHER -> fallback(screen)
             ELSE fallback(screen)
    ELSE fallback(screen)

\* after_extension_information with is_ok() for is_some(): an absent
\* extension counts as present.
after_extension_information_is_ok(r, n) ==
    IF r.kind = "Err"
    THEN [pc |-> "cv_return", has_render |-> FALSE, result |-> r]
    ELSE [pc |-> "cv_formats", has_render |-> TRUE, result |-> NoValue]

\* conn.extension_information(render::X11_EXTENSION_NAME)?.is_some(), and
\* the rest of choose_visual when the extension is absent.
after_extension_information(r, n) ==
    IF r.kind = "Err"
    THEN [pc |-> "cv_return", has_render |-> FALSE, result |-> r]
    ELSE IF r.value.kind = "Some"
         THEN [pc |-> "cv_formats", has_render |-> TRUE, result |-> NoValue]
         ELSE [pc |-> "cv_return", has_render |-> FALSE,
               result |-> select_visual(screen_of(n), FALSE, NoValue, n)]

\* after_render_query_pict_formats with a failed query answered by the
\* fallback instead of the error.
after_render_query_pict_formats_fallback(r, hr, n) ==
    IF r.kind = "Err"
    THEN [pc |-> "cv_return", formats |-> NoValue, result |-> fallback(screen_of(n))]
    ELSE LET result == select_visual(screen_of(n), hr, r.value, n)
         IN  [pc |-> IF result.kind = "Panic" THEN "aborted" ELSE "cv_return",
              formats |-> r.value, result |-> result]

\* conn.render_query_pict_formats()?.reply()?, and the rest of choose_visual
\* with the reply.
after_render_query_pict_formats(r, hr, n) ==
    IF r.kind = "Err"
    THEN [pc |-> "cv_return", formats |-> NoValue, result |-> r]
    ELSE LET result == select_visual(screen_of(n), hr, r.value, n)
         IN  [pc |-> IF result.kind = "Panic" THEN "aborted" ELSE "cv_return",
              formats |-> r.value, result |-> result]

\* ----------------------------------------------- composite_manager_running

\* selection_name with the screen number fixed to 0.
selection_name_screen0(n) == SelectionName(0)

\* let atom = format!("_NET_WM_CM_S{}", screen_num);
selection_name(n) == SelectionName(n)

\* after_intern_atom with a failed request sent again.
after_intern_atom_retry(r) ==
    IF r.kind = "Err"
    THEN [pc |-> "cm_intern", atom |-> NONE, result |-> NoValue]
    ELSE [pc |-> "cm_owner", atom |-> r.value.atom, result |-> NoValue]

\* conn.intern_atom(false, atom.as_bytes())?.reply()?.atom
after_intern_atom(r) ==
    IF r.kind = "Err"
    THEN [pc |-> "cm_return", atom |-> NONE, result |-> r]
    ELSE [pc |-> "cm_owner", atom |-> r.value.atom, result |-> NoValue]

\* after_get_selection_owner with a failure taken for "no owner".
after_get_selection_owner_not_running(r) ==
    IF r.kind = "Err" THEN Ok(FALSE) ELSE Ok(r.value.owner # NONE)

\* conn.get_selection_owner(atom)?.reply()?;  Ok(owner.owner != x11rb::NONE)
after_get_selection_owner(r) ==
    IF r.kind = "Err" THEN r ELSE Ok(r.value.owner # NONE)

\* -------------------------------------------------------------------- main

Init ==
    /\ pc = "connect"
    /\ screen_num = 0
    /\ has_render = FALSE
    /\ formats = NoValue
    /\ cv_result = NoValue
    /\ visual = NoValue
    /\ atom = NONE
    /\ cm_result = NoValue
    /\ main_result = NoValue
    /\ selection_owner = [a \in CmAtoms |-> NONE]
    /\ requests = <<>>
    /\ invoked = <<>>
    /\ answers = <<>>

\* let (conn, screen_num) = XCBConnection::connect(None)?;
Connect ==
    /\ pc = "connect"
    /\ \E r \in ConnectReplies :
        IF r.kind = "Err"
        THEN /\ pc' = "exit"
             /\ main_result' = r
             /\ UNCHANGED screen_num
        ELSE /\ pc' = "atoms"
             /\ screen_num' = r.value
             /\ UNCHANGED main_result
    /\ UNCHANGED <<has_render, formats, cv_result, visual, atom, cm_result,
                   selection_owner, requests, invoked, answers>>

\* let atoms = AtomCollection::new(&conn)?.reply()?;  then the call of
\* choose_visual.
InternAtoms ==
    /\ pc = "atoms"
    /\ \E r \in AtomCollectionReplies :
        IF r.kind = "Err"
        THEN /\ pc' = "exit"
             /\ main_result' = r
             /\ UNCHANGED invoked
        ELSE /\ pc' = "cv_ext"
             /\ invoked' = Append(invoked, "choose_visual")
             /\ UNCHANGED main_result
    /\ UNCHANGED <<screen_num, has_render, formats, cv_result, visual, atom,
                   cm_result, selection_owner, requests, answers>>

\* choose_visual: the extension-presence query; without the extension the
\* function returns the fallback at once.
ExtensionInformation ==
    /\ pc = "cv_ext"
    /\ \E r \in ExtensionInformationReplies :
        LET next == after_extension_information(r, screen_num)
        IN  /\ pc' = next.pc
            /\ has_render' = next.has_render
            /\ cv_result' = next.result
            /\ requests' = Append(requests, Issued("QueryExtension", r))
    /\ UNCHANGED <<screen_num, formats, visual, atom, cm_result, main_result,
                   selection_owner, invoked, answers>>

\* choose_visual: the picture-format query, the search for the ARGB32 format
\* and its visual, and the fallback.
RenderQueryPictFormats ==
    /\ pc = "cv_formats"
    /\ \E r \in RenderQueryPictFormatsReplies :
        LET next == after_render_query_pict_formats(r, has_render, screen_num)
        IN  /\ pc' = next.pc
            /\ formats' = next.formats
            /\ cv_result' = next.result
            /\ requests' = Append(requests, Issued("QueryPictFormats", r))
    /\ UNCHANGED <<screen_num, has_render, visual, atom, cm_result, main_result,
                   selection_owner, invoked, answers>>

\* let (depth, visualid) = choose_visual(&conn, screen_num)?;  then the call
\* of composite_manager_running.  The locals of choose_visual are gone.
ChooseVisualReturn ==
    /\ pc = "cv_return"
    /\ IF cv_result.kind = "Err"
       THEN /\ pc' = "exit"
            /\ main_result' = cv_result
            /\ UNCHANGED <<visual, invoked, requests>>
       ELSE /\ pc' = "cm_intern"
            /\ visual' = cv_result.value
            /\ invoked' = Append(invoked, "composite_manager_running")
            /\ requests' = <<>>
            /\ UNCHANGED main_result
    /\ has_render' = FALSE
    /\ formats' = NoValue
    /\ UNCHANGED <<screen_num, cv_result, atom, cm_result, selection_owner, answers>>

\* composite_manager_running: the name-intern request.
InternAtom ==
    /\ pc = "cm_intern"
    /\ \E r \in InternAtomReplies(selection_name(screen_num)) :
        LET next == after_intern_atom(r)
        IN  /\ pc' = next.pc
            /\ atom' = next.atom
            /\ cm_result' = next.result
            /\ requests' = Append(requests, Issued("InternAtom", r))
    /\ UNCHANGED <<screen_num, has_render, formats, cv_result, visual,
                   main_result, selection_owner, invoked, answers>>

\* composite_manager_running: the selection-owner request and the answer.
GetSelectionOwner ==
    /\ pc = "cm_owner"
    /\ \E r \in GetSelectionOwnerReplies(atom) :
        /\ cm_result' = after_get_selection_owner(r)
        /\ requests' = Append(requests, Issued("GetSelectionOwner", r))
    /\ pc' = "cm_return"
    /\ UNCHANGED <<screen_num, has_render, formats, cv_result, visual, atom,
                   main_result, selection_owner, invoked, answers>>

\* let transparency = composite_manager_running(&conn, screen_num)?; ... Ok(())
CompositeManagerReturn ==
    /\ pc = "cm_return"
    /\ pc' = "exit"
    /\ main_result' = IF cm_result.kind = "Err" THEN cm_result ELSE Ok("unit")
    /\ atom' = NONE
    /\ UNCHANGED <<screen_num, has_render, formats, cv_result, visual, cm_result,
                   selection_owner, requests, invoked, answers>>

\* ------------------------------------------------------------- environment

\* The selections are read by composite_manager_running alone, and a change
\* of owner before the probe starts cannot be told from one made as it
\* starts: the compositing manager moves from the start of the probe on.
Probing == pc \in {"cm_intern", "cm_owner", "cm_return", "idle"}

\* A compositing manager starts and takes the selection of a screen.
CompositorClaim ==
    /\ Probing
    /\ \E a \in CmAtoms, w \in CompositorWindows :
        /\ selection_owner[a] = NONE
        /\ selection_owner' = [selection_owner EXCEPT ![a] = w]
    /\ UNCHANGED <<pc, screen_num, has_render, formats, cv_result, visual, atom,
                   cm_result, main_result, requests, invoked, answers>>

\* A compositing manager stops and its selection loses its owner.
CompositorRelease ==
    /\ Probing
    /\ \E a \in CmAtoms :
        /\ selection_owner[a] # NONE
        /\ selection_owner' = [selection_owner EXCEPT ![a] = NONE]
    /\ UNCHANGED <<pc, screen_num, has_render, formats, cv_result, visual, atom,
                   cm_result, main_result, requests, invoked, answers>>

Next ==
    \/ Connect
    \/ InternAtoms
    \/ ExtensionInformation
    \/ RenderQueryPictFormats
    \/ ChooseVisualReturn
    \/ InternAtom
    \/ GetSelectionOwner
    \/ CompositeManagerReturn
    \/ CompositorClaim
    \/ CompositorRelease

Spec == Init /\ [][Next]_vars

\* ------------------------------------------------------ the repeated probe

\* A caller that has a connection and asks composite_manager_running again
\* and again, as an application that follows the compositing manager would.
ProbeInit ==
    /\ pc = "cm_intern"
    /\ screen_num \in ScreenNums
    /\ has_render = FALSE
    /\ formats = NoValue
    /\ cv_result = NoValue
    /\ visual = NoValue
    /\ atom = NONE
    /\ cm_result = NoValue
    /\ main_result = NoValue
    /\ selection_owner = [a \in CmAtoms |-> NONE]
    /\ requests = <<>>
    /\ invoked = <<"composite_manager_running">>
    /\ answers = <<>>

\* composite_manager_running returns to the caller, which notes the answer.
ProbeAnswer ==
    /\ pc = "cm_return"
    /\ pc' = "idle"
    /\ answers' = Append(answers, cm_result)
    /\ atom' = NONE
    /\ UNCHANGED <<screen_num, has_render, formats, cv_result, visual, cm_result,
                   main_result, selection_owner, requests, invoked>>

\* The caller invokes composite_manager_running once more.
ProbeAgain ==
    /\ pc = "idle"
    /\ Len(answers) < MaxCalls
    /\ pc' = "cm_intern"
    /\ cm_result' = NoValue
    /\ requests' = <<>>
    /\ invoked' = Append(invoked, "composite_manager_running")
    /\ UNCHANGED <<screen_num, has_render, formats, cv_result, visual, atom,
                   main_result, selection_owner, answers>>

ProbeNext ==
    \/ InternAtom
    \/ GetSelectionOwner
    \/ ProbeAnswer
    \/ ProbeAgain
    \/ CompositorClaim
    \/ CompositorRelease

SpecProbe == ProbeInit /\ [][ProbeNext]_vars


\* ------------------------------------------------------------ the claims

\* choose_visual has ended and its locals are still in scope.
Ended == pc \in {"cv_return", "aborted"}

\* The fallback pair of the screen the connection named.
RootPair ==
    <<roots[screen_num + 1].root_depth, roots[screen_num + 1].root_visual>>

\* The server reported the rendering extension absent.
ExtensionAbsent ==
    /\ Ended
    /\ Len(requests) >= 1
    /\ requests[1] = [name |-> "QueryExtension", reply |-> "None"]

\* The server reported the extension present and answered the format query.
GotFormats ==
    /\ Ended
    /\ Len(requests) >= 1
    /\ requests[1] = [name |-> "QueryExtension", reply |-> "Some"]
    /\ formats # NoValue

MasksFull(f) ==
    /\ f.direct.red_mask = 255
    /\ f.direct.green_mask = 255
    /\ f.direct.blue_mask = 255
    /\ f.direct.alpha_mask = 255

ShiftsArgb(f) ==
    /\ f.direct.red_shift = 16
    /\ f.direct.green_shift = 8
    /\ f.direct.blue_shift = 0
    /\ f.direct.alpha_shift = 24

\* A Direct, depth-32 format with all masks 0xff and shifts (16,8,0,24).
Qualifies(f) ==
    f.type_ = "Direct" /\ f.depth = 32 /\ MasksFull(f) /\ ShiftsArgb(f)

Qualifying == { i \in 1 .. Len(formats.formats) : Qualifies(formats.formats[i]) }

\* The first qualifying format of the reply, in list order.
FirstQualifying ==
    formats.formats[CHOOSE i \in Qualifying : \A j \in Qualifying : i <= j]

\* The reply has a catalog for the target screen.
TargetListed == screen_num < Len(formats.screens)

TargetDepths == formats.screens[screen_num + 1].depths

\* The places <<depth, visual>> of the target screen's catalog.
TargetPlaces ==
    UNION { { <<d, i>> : i \in 1 .. Len(TargetDepths[d].visuals) } :
            d \in 1 .. Len(TargetDepths) }

VisualAt(p) == TargetDepths[p[1]].visuals[p[2]]

\* Depth-then-visual order of the places.
Precedes(p, q) == p[1] < q[1] \/ (p[1] = q[1] /\ p[2] <= q[2])

\* The places of the target screen whose visual references format id.
Referencing(id) ==
    IF TargetListed
    THEN { p \in TargetPlaces : VisualAt(p).format = id }
    ELSE {}

FirstReferencing(id) ==
    VisualAt(CHOOSE p \in Referencing(id) : \A q \in Referencing(id) : Precedes(p, q))

\* C1: when the rendering extension is reported absent, choose_visual
\* returns exactly the root depth and root visual of the screen.
AbsentExtensionGivesRootPair ==
    ExtensionAbsent => cv_result = Ok(RootPair)

AbsentExtensionReturned ==
    /\ pc = "cv_return"
    /\ ExtensionAbsent
    /\ requests = <<[name |-> "QueryExtension", reply |-> "None"]>>
    /\ screen_num = 1
    /\ cv_result = Ok(<<32, 34>>)

\* C2 as stated: whenever the format list has a qualifying ARGB32 entry that
\* a visual of the screen references, choose_visual returns depth 32 with a
\* visual that references that entry, whatever else the list holds.
AnyArgbEntryWithVisualIsChosen ==
    GotFormats =>
        \A i \in Qualifying :
            Referencing(formats.formats[i].id) # {} =>
                \E p \in Referencing(formats.formats[i].id) :
                    cv_result = Ok(<<32, VisualAt(p).visual>>)

\* C2 as amended: whenever the first qualifying ARGB32 entry of the format
\* list, in list order, is referenced by a visual of the target screen's
\* catalog, choose_visual returns depth 32 with a visual of that screen that
\* references the entry, whatever non-qualifying entries precede or follow.
FirstArgbEntryWithVisualIsChosen ==
    (GotFormats /\ Qualifying # {}) =>
        (Referencing(FirstQualifying.id) # {} =>
            \E p \in Referencing(FirstQualifying.id) :
                cv_result = Ok(<<32, VisualAt(p).visual>>))

\* The qualifying entry sits second, behind a format that fails the shifts,
\* and its visual is chosen.
ArgbEntryChosenBehindOther ==
    /\ pc = "cv_return"
    /\ GotFormats
    /\ Len(formats.formats) = 2
    /\ ~Qualifies(formats.formats[1])
    /\ Qualifies(formats.formats[2])
    /\ Referencing(formats.formats[2].id) # {}
    /\ cv_result.kind = "Ok"
    /\ cv_result.value[1] = 32
    /\ cv_result.value # RootPair

\* C3: with the extension present, a format list (the empty one too) with no
\* entry that has both all four masks 0xff and the shifts (16,8,0,24) gives
\* the fallback pair, whatever the catalog of the screen holds.
NoArgbEntryGivesRootPair ==
    (GotFormats /\ \A i \in 1 .. Len(formats.formats) :
                       ~(MasksFull(formats.formats[i]) /\ ShiftsArgb(formats.formats[i])))
        => cv_result = Ok(RootPair)

\* The format with the alpha mask 0 is referenced by a visual of the screen
\* and the fallback is returned.
AlphaMaskNotFullFellBack ==
    /\ pc = "cv_return"
    /\ GotFormats
    /\ Len(formats.formats) = 1
    /\ formats.formats[1].direct.alpha_mask = 0
    /\ ShiftsArgb(formats.formats[1])
    /\ Referencing(formats.formats[1].id) # {}
    /\ cv_result = Ok(RootPair)

Errors == {"ConnectError", "ConnectionError", "X11Error"}

\* The names of the requests issued, in order.
Names(reqs) == [i \in 1 .. Len(reqs) |-> reqs[i].name]

\* The entries of the history for request name.
Attempts(name) == { i \in 1 .. Len(requests) : requests[i].name = name }

\* composite_manager_running is the function running or the last that ran.
InProbe ==
    /\ invoked # <<>>
    /\ invoked[Len(invoked)] = "composite_manager_running"

\* choose_visual is the function running or the last that ran.
InChooseVisual ==
    /\ invoked # <<>>
    /\ invoked[Len(invoked)] = "choose_visual"

\* The selection _NET_WM_CM_S<screen_num> has an owner on the server.
SelectionOwned == selection_owner[400 + screen_num] # 0

\* C5: a call of composite_manager_running that succeeds returns true iff
\* the selection _NET_WM_CM_S<screen_num> has an owner when the owner is
\* queried, whatever earlier calls saw and answered.
AnswerIsOwnershipAtCall ==
    [][(pc = "cm_owner" /\ pc' = "cm_return" /\ cm_result'.kind = "Ok")
          => (cm_result'.value <=> SelectionOwned)]_vars

\* Three calls on screen 1: no owner, then an owner, then none again.
AnswerFollowedCompositor ==
    /\ screen_num = 1
    /\ answers = <<Ok(FALSE), Ok(TRUE), Ok(FALSE)>>

\* C6: when the name-intern request or the selection-owner request fails,
\* composite_manager_running returns that error, never a boolean.
ProbeFailureIsReturned ==
    (InProbe /\ pc \in {"cm_return", "idle", "exit"}) =>
        \A i \in 1 .. Len(requests) :
            requests[i].reply \in Errors => cm_result = Err(requests[i].reply)

\* The owner request of main's probe failed and the probe returned the error.
OwnerQueryFailed ==
    /\ pc = "cm_return"
    /\ Names(requests) = <<"InternAtom", "GetSelectionOwner">>
    /\ requests[2].reply = "ConnectionError"
    /\ cm_result = Err("ConnectionError")

\* C8: an invocation of composite_manager_running that succeeds has issued
\* one name-intern request and then one selection-owner request and nothing
\* else; no request is ever issued twice, and none follows a failed
\* name-intern request.
ProbeRequestsOnce ==
    InProbe =>
        /\ Cardinality(Attempts("InternAtom")) <= 1
        /\ Cardinality(Attempts("GetSelectionOwner")) <= 1
        /\ (pc \in {"cm_return", "idle", "exit"} /\ cm_result.kind = "Ok")
              => Names(requests) = <<"InternAtom", "GetSelectionOwner">>
        /\ (requests # <<>> /\ requests[1].reply \in Errors)
              => Names(requests) = <<"InternAtom">>

\* A second invocation has succeeded after one whose name-intern request
\* failed.
ProbeSucceededAfterFailure ==
    /\ pc = "cm_return"
    /\ Len(answers) = 1
    /\ answers[1].kind = "Err"
    /\ cm_result.kind = "Ok"
    /\ Names(requests) = <<"InternAtom", "GetSelectionOwner">>

\* C7 as stated: when the extension query and the format query succeed,
\* choose_visual ends by returning a pair, whatever the format list and the
\* screen and visual catalog of the reply hold.
ChooseVisualAlwaysReturns ==
    (Ended /\ \A i \in 1 .. Len(requests) : requests[i].reply \notin Errors)
        => cv_result.kind = "Ok"

\* C7 where the reply lists the target screen: the pair is returned.
ChooseVisualReturnsWhenListed ==
    (GotFormats /\ TargetListed) => cv_result.kind = "Ok"

\* C9 as stated: with the extension present the first qualifying format in
\* list order decides; the first visual of the target screen that references
\* it, in depth-then-visual order, is returned with depth 32, and the
\* fallback pair when no visual of the target screen references it.
ChoiceFollowsFirstFormat ==
    (GotFormats /\ Qualifying # {}) =>
        IF Referencing(FirstQualifying.id) # {}
        THEN cv_result = Ok(<<32, FirstReferencing(FirstQualifying.id).visual>>)
        ELSE cv_result = Ok(RootPair)

\* C9 where the reply lists the target screen.
ChoiceFollowsFirstFormatWhenListed ==
    (GotFormats /\ TargetListed) => ChoiceFollowsFirstFormat

\* The first format has no visual on the target screen, a later one has,
\* and the fallback is returned.
LaterFormatIgnored ==
    /\ pc = "cv_return"
    /\ GotFormats
    /\ Cardinality(Qualifying) = 2
    /\ Referencing(formats.formats[1].id) = {}
    /\ Referencing(formats.formats[2].id) # {}
    /\ cv_result = Ok(RootPair)

====
